---- MODULE Spec2Model ----
(***************************************************************************)
(* Naver weather MCP server (src/server.py, src/src/main.py).              *)
(*                                                                         *)
(* The two files are near-duplicate variants of the same tool.  The model  *)
(* covers get_weather_by_region run by concurrent worker threads that      *)
(* share the TTL cache, the rate limiter's timestamp and its lock.         *)
(*                                                                         *)
(* Time is discrete.  One tick is BACKOFF_BASE seconds (0.8 s); `now' is   *)
(* the value time.monotonic() returns.  time.sleep(d) returns no earlier   *)
(* than d after it was called and may return later.  The cache TTL and the *)
(* rate-limit interval are configuration (main.py reads them from the      *)
(* environment), drawn at start-up from small sets of tick counts.         *)
(*                                                                         *)
(* cachetools.TTLCache is modelled by what its operations do (version 5):  *)
(* an entry is live while timer() < expires, expires = insertion time +    *)
(* ttl; __setitem__ first drops expired entries, then evicts least         *)
(* recently used entries while the cache is full; __getitem__ marks the    *)
(* entry as most recently used and raises KeyError on an expired or        *)
(* missing key.  Each cachetools call is one atomic step.                  *)
(*                                                                         *)
(* Specifications: Spec (two threads), SpecSolo (one thread, a longer      *)
(* time), SpecLive (two threads under a fair scheduler), and one for each  *)
(* function run on its own: SpecFormat (_format_text), SpecTemp            *)
(* (_normalize_temp of either file), SpecError (the error string),         *)
(* SpecConfig (module import and supported_fields), SpecHumidity           *)
(* (_guess_humidity).                                                      *)
(***************************************************************************)
EXTENDS Integers, Sequences, FiniteSets, TLC

(* ------------------------------ bounds -------------------------------- *)

\* The clock stops advancing at MaxTime (two threads, Spec) or at
\* MaxTimeSolo (one thread, SpecSolo: long enough for a fetch to use up all
\* its attempts and backoff sleeps).
MaxTime == 5
MaxTimeSolo == 12

\* The time up to which the clock is counted in SpecLive; later instants
\* are not told apart.
MaxTimeLive == 2

\* Total number of get_weather_by_region calls started in a behaviour.
MaxQueries == 2

\* Stand-in for TTLCache(maxsize=256): the capacity of the modelled cache.
MaxSize == 1

\* Longest temperature text given to _normalize_temp.
MaxTempLen == 3

\* Longest error text, in characters (beyond the 120 that are returned).
MaxErrLen == 125

\* Worker threads serving tool calls.
Threads == {"t1", "t2"}

\* Values the environment may give CACHE_TTL_SECONDS / RATE_LIMIT_INTERVAL,
\* in ticks.
TtlValues == {2}
IntervalValues == {2}

(* --------------------------- program constants ------------------------ *)

MAX_RETRIES == 3

\* The number of characters of str(e) the error string shows: str(e)[:120].
ReasonLimit == 120

\* The defaults of os.getenv for CACHE_TTL_SECONDS and RATE_LIMIT_INTERVAL
\* (seconds), and the values server.py assigns after reading the environment.
DefaultTtl == 600
DefaultInterval == 1
ServerTtl == 600
ServerInterval == 1

\* 0.8 s, the unit of model time.
BACKOFF_BASE == 1

\* The whitespace character of region strings.
Space == " "

\* region arguments of get_weather_by_region, as character sequences.
RegionInputs ==
    { <<>>, <<Space>>, <<"a">>, <<Space, "a">>, <<"b", Space>> }

\* The format argument.
Formats == {"text", "json"}

\* What the upstream page can contain (the fields the extractor would find).
Htmls == {"h1", "h2"}

\* What one requests.get can end in: a status code, or an exception raised
\* by the transport (timeout, connection error).
Statuses == {200, 304, 404, 429, 503}
Outcomes ==
    [exc : {FALSE}, status : Statuses] \cup { [exc |-> TRUE, status |-> 0] }

NoThread == "none"
None == "None"
NoData == [region |-> <<>>, fields |-> None, timestamp |-> -1]
NoResult == [kind |-> "none"]
NoResp == [exc |-> FALSE, status |-> 0]
NoStored == [value |-> NoData, at |-> -1]
NoArg == [fn |-> "none"]
NoRet == [fn |-> "none"]

VARIABLES
    now,                   \* time.monotonic(),
    CACHE_TTL_SECONDS,     \* configuration in effect (ticks),
    RATE_LIMIT_INTERVAL,   \* configuration in effect (ticks),
    cache,                 \* the TTLCache: entries, least recently used first,
    last_request_ts,       \* _last_request_ts,
    rl_lock,               \* holder of _rl_lock, or NoThread,
    pc,                    \* per thread: position in get_weather_by_region,
    region_key,            \* per thread: local region_key,
    attempt,               \* per thread: loop variable of _fetch_html,
    err,                   \* per thread: local err of _fetch_html,
    wake,                  \* per thread: earliest return time of its time.sleep,
    resp,                  \* per thread: how its requests.get ended,
    html,                  \* per thread: page text returned by _fetch_html,
    data,                  \* per thread: local data,
    result,                \* per thread: what the call returned (or raised),
    started,               \* bookkeeping: calls started so far,
    acquires,              \* bookkeeping, per thread: _rate_limit calls its call completed,
    gets,                  \* bookkeeping, per thread: requests.get calls its call issued,
    puts,                  \* bookkeeping, per thread: cache writes its call made,
    hit,                   \* bookkeeping, per thread: its membership test was true,
    slot,                  \* bookkeeping, per thread: stamp of the _rate_limit call its attempt holds,
    lastGet,               \* bookkeeping: start time of the latest requests.get, or -1
    stored,                \* bookkeeping, per key in the cache: record and time of its last write
    unit,                  \* a function run on its own: "none", "call", then its later positions,
    arg,                   \* its argument,
    ret                    \* its return value

vars == << now, CACHE_TTL_SECONDS, RATE_LIMIT_INTERVAL, cache,
           last_request_ts, rl_lock, pc, region_key, attempt, err, wake, resp,
           html, data, result, started, acquires, gets, puts, hit, slot,
           lastGet, stored, unit, arg, ret >>

(* ------------------------------ helpers -------------------------------- *)

\* str.strip(): drop leading and trailing whitespace.
RECURSIVE lstrip(_)
lstrip(s) ==
    IF s # <<>> /\ Head(s) = Space THEN lstrip(Tail(s)) ELSE s

RECURSIVE rstrip(_)
rstrip(s) ==
    IF s # <<>> /\ s[Len(s)] = Space THEN rstrip(SubSeq(s, 1, Len(s) - 1)) ELSE s

strip(s) == rstrip(lstrip(s))

\* The cache keys the region arguments lead to.
Keys == { strip(r) : r \in RegionInputs } \ { <<>> }

\* 2 ** n
RECURSIVE Pow2(_)
Pow2(n) == IF n = 0 THEN 1 ELSE 2 * Pow2(n - 1)

(* ---------------------------- the TTL cache ---------------------------- *)

CacheKeys(c) == { c[i].key : i \in DOMAIN c }

\* The entry linked under k.
EntryOf(c, k) == CHOOSE e \in { c[i] : i \in DOMAIN c } : e.key = k

\* Without the entry for k.
Without(c, k) == SelectSeq(c, LAMBDA e : e.key # k)

\* TTLCache.expire(time): drop every entry with not (time < expires).
Expire(c, t) == SelectSeq(c, LAMBDA e : t < e.expires)

\* Variant: an entry is still live at the instant it expires.
ContainsInclusive(c, k, t) ==
    \E i \in DOMAIN c : c[i].key = k /\ t <= c[i].expires

\* TTLCache.__contains__, and the test TTLCache.__getitem__ makes before it
\* returns the value: the key is linked and timer() < link.expires.
Contains(c, k, t) == \E i \in DOMAIN c : c[i].key = k /\ t < c[i].expires

\* Variant: the read takes the entry out of the cache.
TouchPops(c, k) == Without(c, k)

\* TTLCache.__getitem__ on a live key: the entry becomes most recently used
\* (__getlink moves it to the end); value and expiry are untouched.
Touch(c, k) == Without(c, k) \o << EntryOf(c, k) >>

\* Variant: nothing is evicted.
EvictNone(c) == c

\* Cache.__setitem__'s eviction loop, for a new key of size 1:
\* while currsize + size > maxsize: popitem() (least recently used first).
RECURSIVE EvictLRU(_)
EvictLRU(c) ==
    IF c # <<>> /\ Len(c) + 1 > MaxSize THEN EvictLRU(Tail(c)) ELSE c

\* Variant: a live entry for the key is kept, the new value dropped.
SetItemKeepsFirst(c, k, v, t, ttl) ==
    LET live == Expire(c, t)
    IN  IF k \in CacheKeys(live) THEN live
        ELSE EvictLRU(live) \o << [key |-> k, value |-> v, expires |-> t + ttl] >>

\* TTLCache.__setitem__: expire(time); evict if the key is new and the
\* cache is full; store the value; link it last with expires = time + ttl.
SetItem(c, k, v, t, ttl) ==
    LET live == Expire(c, t)
        room == IF k \in CacheKeys(live) THEN live ELSE EvictLRU(live)
    IN  Without(room, k) \o << [key |-> k, value |-> v, expires |-> t + ttl] >>

(* ------------------------- pure parts of the tool --------------------- *)

\* Variant: the test never finds the key empty.
BlankNever(k) == FALSE

\* `if not region_key:'
Blank(k) == k = <<>>

\* `with _rl_lock:' can be entered.
LockFree(l) == l = NoThread

\* Variant: the interval is left out of the wait.
WaitNoInterval(last, interval, t) == last - t

\* _rate_limit: wait = (_last_request_ts + RATE_LIMIT_INTERVAL) - now
Wait(last, interval, t) == (last + interval) - t

\* _fetch_html: sleep_for = BACKOFF_BASE * (2 ** (attempt - 1))
SleepFor(a) == BACKOFF_BASE * Pow2(a - 1)

\* Variant: one round too many.
MoreAttemptsOffByOne(a) == a <= MAX_RETRIES

\* _fetch_html: `for attempt in range(1, MAX_RETRIES + 1)' has another round
\* after round a.
MoreAttempts(a) == a < MAX_RETRIES

\* _fetch_html: the attempt raises: the transport raised, or the status is
\* >= 500 or 429 (HTTPError raised explicitly), or raise_for_status() raised
\* (it does for 400 <= status < 600).
AttemptFails(o) ==
    \/ o.exc
    \/ o.status >= 500 \/ o.status = 429
    \/ (400 <= o.status /\ o.status < 600)

\* str(e) of the exception of a failed attempt.
ErrText(o) == IF o.exc THEN "Timeout" ELSE "HTTPError"

\* _fetch_html: err = e
KeepErr(old, o) == ErrText(o)

\* RuntimeError(f"Failed to fetch after retries: {err}")
FetchError(e) == << "Failed to fetch after retries", e >>

\* _parse_weather(html, region): the record built from the page.  `fields'
\* stands for status / temperature / sensible_temperature / humidity, which
\* the page determines; source is determined by region.
parse_weather(h, region, t) ==
    [region |-> region, fields |-> h, timestamp |-> t]

\* json.dumps(data) or _format_text(data), by the format argument.
Render(d, fmt) == [kind |-> "ok", format |-> fmt, of |-> d]

\* The literal returned for an empty region.
ValidationMsg == [kind |-> "validation"]

\* Variant: the whole text.
TruncateNot(e) == e

\* str(e)[:120]
Truncate(e) ==
    SubSeq(e, 1, IF Len(e) < ReasonLimit THEN Len(e) ELSE ReasonLimit)

\* The string returned by the except branch of get_weather_by_region.
ErrorMsg(e) == [kind |-> "error", reason |-> Truncate(e)]

\* An exception that leaves get_weather_by_region.
Raised(e) == [kind |-> "raise", exc |-> e]

(* ------------------------------- Init ---------------------------------- *)

\* The module globals other than the configuration, and the locals of the
\* threads, before any call.
InitRun ==
    /\ now = 0
    /\ cache = <<>>
    /\ last_request_ts = 0
    /\ rl_lock = NoThread
    /\ pc = [t \in Threads |-> "idle"]
    /\ region_key = [t \in Threads |-> <<>>]
    /\ attempt = [t \in Threads |-> 0]
    /\ err = [t \in Threads |-> None]
    /\ wake = [t \in Threads |-> 0]
    /\ resp = [t \in Threads |-> NoResp]
    /\ html = [t \in Threads |-> None]
    /\ data = [t \in Threads |-> NoData]
    /\ result = [t \in Threads |-> NoResult]
    /\ started = 0
    /\ acquires = [t \in Threads |-> 0]
    /\ gets = [t \in Threads |-> 0]
    /\ puts = [t \in Threads |-> 0]
    /\ hit = [t \in Threads |-> FALSE]
    /\ slot = [t \in Threads |-> -1]
    /\ lastGet = -1
    /\ stored = [k \in Keys |-> NoStored]

\* The configuration as the environment gives it.
InitEnv ==
    /\ CACHE_TTL_SECONDS \in TtlValues
    /\ RATE_LIMIT_INTERVAL \in IntervalValues

\* No function is run on its own.
InitNoUnit ==
    /\ unit = "none"
    /\ arg = NoArg
    /\ ret = NoRet

Init == InitEnv /\ InitRun /\ InitNoUnit

(* ------------------------------ actions -------------------------------- *)

\* get_weather_by_region is called (server.py 175-177, main.py 164-166):
\* region_key = region.strip(); an empty key returns the validation string.
Start(t) ==
    /\ pc[t] = "idle"
    /\ started < MaxQueries
    /\ started' = started + 1
    /\ \E region \in RegionInputs :
         /\ region_key' = [region_key EXCEPT ![t] = strip(region)]
         /\ IF Blank(strip(region))
            THEN /\ result' = [result EXCEPT ![t] = ValidationMsg]
                 /\ pc' = [pc EXCEPT ![t] = "done"]
            ELSE /\ pc' = [pc EXCEPT ![t] = "check"]
                 /\ UNCHANGED result
    /\ UNCHANGED << now, CACHE_TTL_SECONDS, RATE_LIMIT_INTERVAL, cache,
                    last_request_ts, rl_lock, attempt, err, wake, resp, html,
                    data, acquires, gets, puts, hit, slot, lastGet, stored >>
    /\ UNCHANGED << unit, arg, ret >>

\* `if region_key in cache:' -- the hit branch, or the miss branch, where
\* _fetch_html starts its loop with attempt = 1 and err = None.
CacheCheck(t) ==
    /\ pc[t] = "check"
    /\ IF Contains(cache, region_key[t], now)
       THEN /\ pc' = [pc EXCEPT ![t] = "read"]
            /\ hit' = [hit EXCEPT ![t] = TRUE]
            /\ UNCHANGED attempt
       ELSE /\ pc' = [pc EXCEPT ![t] = "rl_lock"]
            /\ attempt' = [attempt EXCEPT ![t] = 1]
            /\ UNCHANGED hit
    /\ UNCHANGED << now, CACHE_TTL_SECONDS, RATE_LIMIT_INTERVAL, cache,
                    last_request_ts, rl_lock, region_key, err, wake, resp,
                    html, data, result, started, acquires, gets, puts, slot,
                    lastGet, stored >>
    /\ UNCHANGED << unit, arg, ret >>

\* `data = cache[region_key]' -- outside any try: a KeyError leaves the call.
CacheRead(t) ==
    /\ pc[t] = "read"
    /\ IF Contains(cache, region_key[t], now)
       THEN /\ data' = [data EXCEPT ![t] = EntryOf(cache, region_key[t]).value]
            /\ cache' = Touch(cache, region_key[t])
            /\ pc' = [pc EXCEPT ![t] = "render"]
            /\ UNCHANGED result
       ELSE /\ result' = [result EXCEPT ![t] = Raised("KeyError")]
            /\ pc' = [pc EXCEPT ![t] = "done"]
            /\ UNCHANGED << data, cache >>
    /\ UNCHANGED << now, CACHE_TTL_SECONDS, RATE_LIMIT_INTERVAL,
                    last_request_ts, rl_lock, region_key, attempt, err, wake,
                    resp, html, started, acquires, gets, puts, hit, slot,
                    lastGet, stored >>
    /\ UNCHANGED << unit, arg, ret >>

\* _rate_limit: `with _rl_lock:' blocks until the lock is free; then
\* now = time.monotonic(); wait = ...; if wait > 0: time.sleep(wait).
\* Taking the lock and reading the clock are one step: a thread that has
\* the lock and has not read the clock yet differs from one still waiting
\* for the lock only in blocking the others.
RlEnter(t) ==
    /\ pc[t] = "rl_lock"
    /\ LockFree(rl_lock)
    /\ rl_lock' = t
    /\ LET wait == Wait(last_request_ts, RATE_LIMIT_INTERVAL, now)
       IN  IF wait > 0
           THEN /\ wake' = [wake EXCEPT ![t] = now + wait]
                /\ pc' = [pc EXCEPT ![t] = "rl_sleep"]
           ELSE /\ pc' = [pc EXCEPT ![t] = "rl_stamp"]
                /\ UNCHANGED wake
    /\ UNCHANGED << now, CACHE_TTL_SECONDS, RATE_LIMIT_INTERVAL, cache,
                    last_request_ts, region_key, attempt, err, resp, html,
                    data, result, started, acquires, gets, puts, hit, slot,
                    lastGet, stored >>
    /\ UNCHANGED << unit, arg, ret >>

\* _rate_limit: time.sleep(wait) returns, the lock still held.
RlSleep(t) ==
    /\ pc[t] = "rl_sleep"
    /\ now >= wake[t]
    /\ wake' = [wake EXCEPT ![t] = 0]
    /\ pc' = [pc EXCEPT ![t] = "rl_stamp"]
    /\ UNCHANGED << now, CACHE_TTL_SECONDS, RATE_LIMIT_INTERVAL, cache,
                    last_request_ts, rl_lock, region_key, attempt, err, resp,
                    html, data, result, started, acquires, gets, puts, hit,
                    slot, lastGet, stored >>
    /\ UNCHANGED << unit, arg, ret >>

\* Variant: the lock is taken with acquire() and never released.
RlStampKeepsLock(t) ==
    /\ pc[t] = "rl_stamp"
    /\ last_request_ts' = now
    /\ acquires' = [acquires EXCEPT ![t] = @ + 1]
    /\ slot' = [slot EXCEPT ![t] = now]
    /\ pc' = [pc EXCEPT ![t] = "get"]
    /\ UNCHANGED << now, CACHE_TTL_SECONDS, RATE_LIMIT_INTERVAL, cache,
                    rl_lock, region_key, attempt, err, wake, resp, html, data,
                    result, started, gets, puts, hit, lastGet, stored >>
    /\ UNCHANGED << unit, arg, ret >>

\* _rate_limit: _last_request_ts = time.monotonic(); the with block ends
\* (the lock is released) and the function returns.
RlStamp(t) ==
    /\ pc[t] = "rl_stamp"
    /\ last_request_ts' = now
    /\ rl_lock' = NoThread
    /\ acquires' = [acquires EXCEPT ![t] = @ + 1]
    /\ slot' = [slot EXCEPT ![t] = now]
    /\ pc' = [pc EXCEPT ![t] = "get"]
    /\ UNCHANGED << now, CACHE_TTL_SECONDS, RATE_LIMIT_INTERVAL, cache,
                    region_key, attempt, err, wake, resp, html, data, result,
                    started, gets, puts, hit, lastGet, stored >>
    /\ UNCHANGED << unit, arg, ret >>

\* _fetch_html: requests.get(...) is issued.
HttpGet(t) ==
    /\ pc[t] = "get"
    /\ gets' = [gets EXCEPT ![t] = @ + 1]
    /\ lastGet' = now
    /\ pc' = [pc EXCEPT ![t] = "resp"]
    /\ UNCHANGED << now, CACHE_TTL_SECONDS, RATE_LIMIT_INTERVAL, cache,
                    last_request_ts, rl_lock, region_key, attempt, err, wake,
                    resp, html, data, result, started, acquires, puts, hit,
                    slot, stored >>
    /\ UNCHANGED << unit, arg, ret >>

\* requests.get ends: the upstream answers with some status, or the
\* transport raises (timeout after DEFAULT_TIMEOUT, connection error).
HttpResp(t) ==
    /\ pc[t] = "resp"
    /\ \E o \in Outcomes : resp' = [resp EXCEPT ![t] = o]
    /\ slot' = [slot EXCEPT ![t] = -1]
    /\ pc' = [pc EXCEPT ![t] = "handle"]
    /\ UNCHANGED << now, CACHE_TTL_SECONDS, RATE_LIMIT_INTERVAL, cache,
                    last_request_ts, rl_lock, region_key, attempt, err, wake,
                    html, data, result, started, acquires, gets, puts, hit,
                    lastGet, stored >>
    /\ UNCHANGED << unit, arg, ret >>

\* _fetch_html, after requests.get: a failing attempt stores the exception
\* in err and sleeps sleep_for; any other response is returned as the page
\* text to get_weather_by_region.
Handle(t) ==
    /\ pc[t] = "handle"
    /\ resp' = [resp EXCEPT ![t] = NoResp]
    /\ IF AttemptFails(resp[t])
       THEN /\ err' = [err EXCEPT ![t] = KeepErr(@, resp[t])]
            /\ wake' = [wake EXCEPT ![t] = now + SleepFor(attempt[t])]
            /\ pc' = [pc EXCEPT ![t] = "backoff"]
            /\ UNCHANGED << html, attempt >>
       ELSE /\ \E h \in Htmls : html' = [html EXCEPT ![t] = h]
            /\ pc' = [pc EXCEPT ![t] = "parse"]
            /\ attempt' = [attempt EXCEPT ![t] = 0]
            /\ err' = [err EXCEPT ![t] = None]
            /\ UNCHANGED wake
    /\ UNCHANGED << now, CACHE_TTL_SECONDS, RATE_LIMIT_INTERVAL, cache,
                    last_request_ts, rl_lock, region_key, data, result,
                    started, acquires, gets, puts, hit, slot, lastGet, stored >>
    /\ UNCHANGED << unit, arg, ret >>

\* Variant: the except branch of get_weather_by_region caches an empty
\* record for the key.
BackoffCachingFailure(t) ==
    /\ pc[t] = "backoff"
    /\ now >= wake[t]
    /\ wake' = [wake EXCEPT ![t] = 0]
    /\ IF MoreAttempts(attempt[t])
       THEN /\ attempt' = [attempt EXCEPT ![t] = @ + 1]
            /\ pc' = [pc EXCEPT ![t] = "rl_lock"]
            /\ UNCHANGED << result, err, cache >>
       ELSE /\ result' = [result EXCEPT ![t] = ErrorMsg(FetchError(err[t]))]
            /\ cache' = SetItem(cache, region_key[t], NoData, now,
                                CACHE_TTL_SECONDS)
            /\ pc' = [pc EXCEPT ![t] = "done"]
            /\ attempt' = [attempt EXCEPT ![t] = 0]
            /\ err' = [err EXCEPT ![t] = None]
    /\ UNCHANGED << now, CACHE_TTL_SECONDS, RATE_LIMIT_INTERVAL,
                    last_request_ts, rl_lock, region_key, resp, html, data,
                    started, acquires, gets, puts, hit, slot, lastGet, stored >>
    /\ UNCHANGED << unit, arg, ret >>

\* Variant: _rate_limit is called once, before the loop, and a retry goes
\* straight to requests.get.
BackoffSkippingLimiter(t) ==
    /\ pc[t] = "backoff"
    /\ now >= wake[t]
    /\ wake' = [wake EXCEPT ![t] = 0]
    /\ IF MoreAttempts(attempt[t])
       THEN /\ attempt' = [attempt EXCEPT ![t] = @ + 1]
            /\ pc' = [pc EXCEPT ![t] = "get"]
            /\ UNCHANGED << result, err >>
       ELSE /\ result' = [result EXCEPT ![t] = ErrorMsg(FetchError(err[t]))]
            /\ pc' = [pc EXCEPT ![t] = "done"]
            /\ attempt' = [attempt EXCEPT ![t] = 0]
            /\ err' = [err EXCEPT ![t] = None]
    /\ UNCHANGED << now, CACHE_TTL_SECONDS, RATE_LIMIT_INTERVAL, cache,
                    last_request_ts, rl_lock, region_key, resp, html, data,
                    started, acquires, gets, puts, hit, slot, lastGet, stored >>
    /\ UNCHANGED << unit, arg, ret >>

\* _fetch_html: the backoff sleep returns and the for loop goes on; after
\* the last round the loop ends and RuntimeError is raised, which the
\* except branch of get_weather_by_region turns into the error string.
Backoff(t) ==
    /\ pc[t] = "backoff"
    /\ now >= wake[t]
    /\ wake' = [wake EXCEPT ![t] = 0]
    /\ IF MoreAttempts(attempt[t])
       THEN /\ attempt' = [attempt EXCEPT ![t] = @ + 1]
            /\ pc' = [pc EXCEPT ![t] = "rl_lock"]
            /\ UNCHANGED << result, err >>
       ELSE /\ result' = [result EXCEPT ![t] = ErrorMsg(FetchError(err[t]))]
            /\ pc' = [pc EXCEPT ![t] = "done"]
            /\ attempt' = [attempt EXCEPT ![t] = 0]
            /\ err' = [err EXCEPT ![t] = None]
    /\ UNCHANGED << now, CACHE_TTL_SECONDS, RATE_LIMIT_INTERVAL, cache,
                    last_request_ts, rl_lock, region_key, resp, html, data,
                    started, acquires, gets, puts, hit, slot, lastGet, stored >>
    /\ UNCHANGED << unit, arg, ret >>

\* data = _parse_weather(html, region_key), inside the try: an exception
\* of the parser ends the call with the error string.
Parse(t) ==
    /\ pc[t] = "parse"
    /\ html' = [html EXCEPT ![t] = None]
    /\ \/ /\ data' = [data EXCEPT ![t] =
                        parse_weather(html[t], region_key[t], now)]
          /\ pc' = [pc EXCEPT ![t] = "put"]
          /\ UNCHANGED result
       \/ /\ result' = [result EXCEPT ![t] = ErrorMsg(<< "ParseError" >>)]
          /\ pc' = [pc EXCEPT ![t] = "done"]
          /\ UNCHANGED data
    /\ UNCHANGED << now, CACHE_TTL_SECONDS, RATE_LIMIT_INTERVAL, cache,
                    last_request_ts, rl_lock, region_key, attempt, err, wake,
                    resp, started, acquires, gets, puts, hit, slot, lastGet,
                    stored >>
    /\ UNCHANGED << unit, arg, ret >>

\* cache[region_key] = data
CachePut(t) ==
    /\ pc[t] = "put"
    /\ cache' = SetItem(cache, region_key[t], data[t], now, CACHE_TTL_SECONDS)
    /\ stored' = [k \in Keys |->
                    IF k = region_key[t] THEN [value |-> data[t], at |-> now]
                    ELSE IF k \in CacheKeys(cache') THEN stored[k]
                    ELSE NoStored]
    /\ puts' = [puts EXCEPT ![t] = @ + 1]
    /\ pc' = [pc EXCEPT ![t] = "render"]
    /\ UNCHANGED << now, CACHE_TTL_SECONDS, RATE_LIMIT_INTERVAL,
                    last_request_ts, rl_lock, region_key, attempt, err, wake,
                    resp, html, data, result, started, acquires, gets, hit,
                    slot, lastGet >>
    /\ UNCHANGED << unit, arg, ret >>

\* The last lines of get_weather_by_region: json.dumps(data) when format is
\* "json", _format_text(data) otherwise.
Respond(t) ==
    /\ pc[t] = "render"
    /\ \E fmt \in Formats :
         result' = [result EXCEPT ![t] = Render(data[t], fmt)]
    /\ data' = [data EXCEPT ![t] = NoData]
    /\ pc' = [pc EXCEPT ![t] = "done"]
    /\ UNCHANGED << now, CACHE_TTL_SECONDS, RATE_LIMIT_INTERVAL, cache,
                    last_request_ts, rl_lock, region_key, attempt, err, wake,
                    resp, html, started, acquires, gets, puts, hit, slot,
                    lastGet, stored >>
    /\ UNCHANGED << unit, arg, ret >>

\* The caller has the result; the thread takes the next call with fresh
\* locals.
Finish(t) ==
    /\ pc[t] = "done"
    /\ pc' = [pc EXCEPT ![t] = "idle"]
    /\ region_key' = [region_key EXCEPT ![t] = <<>>]
    /\ result' = [result EXCEPT ![t] = NoResult]
    /\ acquires' = [acquires EXCEPT ![t] = 0]
    /\ gets' = [gets EXCEPT ![t] = 0]
    /\ puts' = [puts EXCEPT ![t] = 0]
    /\ hit' = [hit EXCEPT ![t] = FALSE]
    /\ UNCHANGED << now, CACHE_TTL_SECONDS, RATE_LIMIT_INTERVAL, cache,
                    last_request_ts, rl_lock, attempt, err, wake, resp, html,
                    data, started, slot, lastGet, stored >>
    /\ UNCHANGED << unit, arg, ret >>

\* The monotonic clock advances, up to the horizon h.
TickTo(h) ==
    /\ now < h
    /\ now' = now + 1
    /\ UNCHANGED << CACHE_TTL_SECONDS, RATE_LIMIT_INTERVAL, cache,
                    last_request_ts, rl_lock, pc, region_key, attempt, err,
                    wake, resp, html, data, result, started, acquires, gets,
                    puts, hit, slot, lastGet, stored >>
    /\ UNCHANGED << unit, arg, ret >>

\* One step of the call thread t serves.
Step(t) ==
    \/ Start(t)
    \/ CacheCheck(t)
    \/ CacheRead(t)
    \/ RlEnter(t)
    \/ RlSleep(t)
    \/ RlStamp(t)
    \/ HttpGet(t)
    \/ HttpResp(t)
    \/ Handle(t)
    \/ Backoff(t)
    \/ Parse(t)
    \/ CachePut(t)
    \/ Respond(t)
    \/ Finish(t)

Tick == TickTo(MaxTime)

Next == Tick \/ \E t \in Threads : Step(t)

\* Concurrent calls on two threads.
Spec == Init /\ [][Next]_vars

TickSolo == TickTo(MaxTimeSolo)

NextSolo == TickSolo \/ Step("t1")

\* Calls served one after another by a single thread, over a longer time.
SpecSolo == Init /\ [][NextSolo]_vars

\* The variables of the server proper: all but the configuration, and all.
callVars == << now, cache, last_request_ts, rl_lock, pc, region_key, attempt,
               err, wake, resp, html, data, result, started, acquires, gets,
               puts, hit, slot, lastGet, stored >>

runVars == << CACHE_TTL_SECONDS, RATE_LIMIT_INTERVAL, callVars >>

(* ------------------------------- claims -------------------------------- *)

\* Thread t's _rate_limit call returns in this step.
RlReturns(t) == pc[t] = "rl_stamp" /\ pc'[t] = "get"

\* Thread t issues a requests.get in this step.
GetStarts(t) == pc[t] = "get" /\ pc'[t] = "resp"

\* C1: whatever the callers and their interleaving, each return of
\* _rate_limit -- timed by the monotonic clock reading the call takes as its
\* last statement -- is at least RATE_LIMIT_INTERVAL after the previous
\* return, whichever region key the callers serve.
C1_AcquireSpacing ==
    [][\A t \in Threads :
         RlReturns(t) =>
           /\ last_request_ts' = now
           /\ last_request_ts' - last_request_ts >= RATE_LIMIT_INTERVAL]_vars

\* Two callers with different region keys have both been through
\* _rate_limit, the later one held back by the earlier one's return.
C1_Witness ==
    \E t, u \in Threads :
      /\ t # u
      /\ region_key[t] # region_key[u]
      /\ pc[t] = "get" /\ pc[u] \in {"get", "resp"}
      /\ slot[t] = slot[u] + RATE_LIMIT_INTERVAL

\* C2: the start of every requests.get is at least RATE_LIMIT_INTERVAL
\* after the start of the previous one, system-wide, however the threads
\* are scheduled between the return of _rate_limit and the requests.get.
C2_GetSpacing ==
    [][\A t \in Threads :
         (GetStarts(t) /\ lastGet >= 0) =>
           now - lastGet >= RATE_LIMIT_INTERVAL]_vars

\* What the code does guarantee of the attempts: every attempt that is
\* about to issue or has issued its requests.get holds the stamp of its own
\* completed _rate_limit call, the GET starts at or after that stamp, and
\* the stamps of any two such attempts are at least RATE_LIMIT_INTERVAL
\* apart.  The lock is released before requests.get, so the starts of the
\* GETs themselves may be closer.
C2_SlotSpacing ==
    \A t \in Threads :
      /\ (pc[t] \in {"get", "resp"}) <=> (slot[t] >= 0)
      /\ slot[t] <= now
      /\ pc[t] = "resp" => slot[t] <= lastGet
      /\ \A u \in Threads \ {t} :
           (slot[t] >= 0 /\ slot[u] >= slot[t]) =>
             slot[u] - slot[t] >= RATE_LIMIT_INTERVAL

\* Two GETs are in flight that started at the same instant, each after its
\* own _rate_limit call, the stamps an interval apart.
C2_Witness ==
    \E t, u \in Threads :
      /\ t # u
      /\ pc[t] = "resp" /\ pc[u] = "resp"
      /\ slot[u] - slot[t] >= RATE_LIMIT_INTERVAL
      /\ lastGet = now

\* C3: no call of get_weather_by_region lets an exception escape.
C3_NoEscape ==
    \A t \in Threads : result[t].kind # "raise"

\* C4: one _fetch_html issues at most MAX_RETRIES requests.get and none
\* after a successful one; an attempt that fails leaves its own error in
\* err; when the last round has failed too, exactly MAX_RETRIES were issued,
\* the call ends with the error string that wraps the last attempt's error,
\* and nothing is retried afterwards.
C4_RetryBound ==
    [][\A t \in Threads :
         /\ gets'[t] <= MAX_RETRIES
         /\ (pc[t] = "handle" /\ pc'[t] # "handle") =>
              IF AttemptFails(resp[t])
              THEN pc'[t] = "backoff" /\ err'[t] = ErrText(resp[t])
              ELSE pc'[t] = "parse"
         /\ (pc[t] \in {"parse", "put", "render", "done"}) =>
              (gets'[t] = gets[t] \/ pc'[t] = "idle")
         /\ (pc[t] = "backoff" /\ pc'[t] # "backoff") =>
              IF gets[t] < MAX_RETRIES
              THEN pc'[t] = "rl_lock" /\ result'[t] = NoResult
              ELSE /\ gets[t] = MAX_RETRIES
                   /\ pc'[t] = "done"
                   /\ result'[t] = ErrorMsg(FetchError(err[t]))]_vars

\* A call has ended with the fetch error after MAX_RETRIES failed attempts.
C4_Witness ==
    \E t \in Threads :
      /\ pc[t] = "done"
      /\ result[t].kind = "error"
      /\ gets[t] = MAX_RETRIES
      /\ acquires[t] = MAX_RETRIES

\* A key as str.strip() leaves it.
IsTrimmed(k) == k = <<>> \/ (Head(k) # Space /\ k[Len(k)] # Space)

\* C5: a call whose region is empty after trimming returns the validation
\* string at once: it issues no requests.get, completes no _rate_limit call
\* (_last_request_ts and the lock untouched) and leaves the cache as it was;
\* any other call goes on to the cache with its trimmed key.
C5_EmptyRegion ==
    /\ [][\A t \in Threads :
            (pc[t] = "idle" /\ pc'[t] # "idle") =>
              /\ IsTrimmed(region_key'[t])
              /\ IF region_key'[t] = <<>>
                 THEN /\ pc'[t] = "done"
                      /\ result'[t] = ValidationMsg
                      /\ UNCHANGED << cache, stored, last_request_ts,
                                      rl_lock, lastGet >>
                 ELSE pc'[t] = "check" /\ result'[t] = NoResult]_vars
    /\ [](\A t \in Threads :
            (pc[t] # "idle" /\ region_key[t] = <<>>) =>
              /\ pc[t] = "done"
              /\ result[t] = ValidationMsg
              /\ gets[t] = 0 /\ acquires[t] = 0 /\ puts[t] = 0 /\ ~hit[t])

\* A call with a blank region has returned the validation string while the
\* cache holds an entry and the rate limiter has been used.
C5_Witness ==
    \E t \in Threads :
      /\ pc[t] = "done"
      /\ result[t] = ValidationMsg
      /\ cache # <<>>
      /\ last_request_ts > 0

\* C6: a call whose membership test found an unexpired entry
\* returns the rendering of the cached record for its key, having completed
\* no _rate_limit call, issued no requests.get and written nothing to the
\* cache.
C6_HitReturnsCached ==
    \A t \in Threads :
      (hit[t] /\ pc[t] = "done") =>
        /\ result[t].kind = "ok"
        /\ result[t].of.region = region_key[t]
        /\ acquires[t] = 0 /\ gets[t] = 0 /\ puts[t] = 0

\* The call of thread t ends in this step because its fetch or its parse
\* failed.
FetchFails(t) == pc[t] \in {"backoff", "parse"} /\ pc'[t] = "done"

\* C7: a call whose fetch or parse fails returns the error string and
\* writes nothing to the cache, at the failure or before it; so every
\* record the cache holds is one a successful parse built for its key.
C7_FailedFetchNotCached ==
    /\ [][\A t \in Threads :
            FetchFails(t) =>
              /\ result'[t].kind = "error"
              /\ puts'[t] = 0
              /\ UNCHANGED << cache, stored >>]_vars
    /\ [](\A t \in Threads :
            result[t].kind = "error" => (pc[t] = "done" /\ puts[t] = 0))
    /\ [](\A i \in DOMAIN cache :
            /\ cache[i].value.region = cache[i].key
            /\ cache[i].value.fields \in Htmls)

\* A call has failed after its last attempt while the cache holds the
\* entry an earlier call wrote.
C7_Witness ==
    \E t \in Threads :
      /\ pc[t] = "done"
      /\ result[t] = ErrorMsg(FetchError("HTTPError"))
      /\ gets[t] = MAX_RETRIES
      /\ cache # <<>>

\* The membership test of thread t's call is made in this step.
Looks(t) == pc[t] = "check" /\ pc'[t] # "check"

Puts(t) == pc[t] = "put" /\ pc'[t] = "render"

\* C9: the cache never holds more than MaxSize entries (one per key), and
\* writing a new key into a cache full of live entries evicts one of them.
C9_Capacity ==
    /\ [](Len(cache) <= MaxSize /\ Cardinality(CacheKeys(cache)) = Len(cache))
    /\ [][\A t \in Threads :
            (/\ Puts(t)
             /\ Len(Expire(cache, now)) = MaxSize
             /\ region_key[t] \notin CacheKeys(Expire(cache, now))) =>
              /\ Len(cache') = MaxSize
              /\ region_key[t] \in CacheKeys(cache')
              /\ \E k \in CacheKeys(Expire(cache, now)) :
                   k \notin CacheKeys(cache')]_vars

\* The cache is full, and the record another call wrote for a different
\* key, young enough to be live, is no longer in it: it was evicted.
C9_Witness ==
    \E t, u \in Threads :
      /\ t # u
      /\ pc[t] = "render" /\ puts[t] = 1
      /\ pc[u] = "render" /\ puts[u] = 1
      /\ Len(cache) = MaxSize
      /\ region_key[t] \in CacheKeys(cache)
      /\ region_key[u] \notin CacheKeys(cache)
      /\ now < data[u].timestamp + CACHE_TTL_SECONDS

\* The cache read of thread t's call succeeds in this step.
Reads(t) == pc[t] = "read" /\ pc'[t] = "render"

\* C10: the cache holds, for each key linked in it, exactly the record of
\* the last write for that key, timestamp included, with its age counted
\* from that write; a read yields that record and changes none; a write for
\* a key replaces the key's record and restarts its age; no other step
\* changes what is stored.
C10_RoundTrip ==
    /\ [](\A k \in Keys :
            IF k \in CacheKeys(cache)
            THEN /\ stored[k].at >= 0
                 /\ EntryOf(cache, k).value = stored[k].value
                 /\ EntryOf(cache, k).expires
                      = stored[k].at + CACHE_TTL_SECONDS
            ELSE stored[k] = NoStored)
    /\ [][\A t \in Threads :
            /\ Reads(t) =>
                 /\ data'[t] = stored[region_key[t]].value
                 /\ stored' = stored
            /\ Puts(t) =>
                 /\ stored'[region_key[t]] = [value |-> data[t], at |-> now]
                 /\ \A k \in Keys \ {region_key[t]} :
                      stored'[k] \in {stored[k], NoStored}]_vars
    /\ [][(\A t \in Threads : ~Puts(t)) => stored' = stored]_vars

\* A call has read, some time after the write, the record another call
\* stored under the same key, original timestamp included.
C10_Witness ==
    \E t, u \in Threads :
      /\ t # u
      /\ hit[t] /\ pc[t] = "render"
      /\ puts[u] = 1
      /\ region_key[u] = region_key[t]
      /\ data[t] = stored[region_key[t]].value
      /\ data[t].timestamp < now

(* ----------------------------- _format_text ---------------------------- *)

\* Values a field of the record can have: None, the empty string, a text.
FieldValues == { None, "", "x" }

\* The fields _format_text prints, in the order it prints them.
FieldNames ==
    << "status", "temperature", "sensible_temperature", "humidity", "source" >>

\* The records _format_text is given.
FormatInputs ==
    [ region : {"a"}, status : FieldValues, temperature : FieldValues,
      sensible_temperature : FieldValues, humidity : FieldValues,
      source : FieldValues ]

\* `if data.get(f):'
Truthy(v) == v # None /\ v # ""

\* The header line, a field line, the notice line.
HeaderLine(d) == << "header", d.region >>
FieldLine(f, v) == << f, v >>
NoticeLine == << "notice", "" >>

\* `if data.get(f): lines.append(...)' for the fields from the i-th on.
RECURSIVE FieldLines(_, _)
FieldLines(d, i) ==
    IF i > Len(FieldNames) THEN << >>
    ELSE (IF Truthy(d[FieldNames[i]])
          THEN << FieldLine(FieldNames[i], d[FieldNames[i]]) >>
          ELSE << >>) \o FieldLines(d, i + 1)

\* Variant: the notice only when nothing at all follows the header.
NeedsNoticeStrict(lines) == Len(lines) < 2

\* `if len(lines) <= 2:'
NeedsNotice(lines) == Len(lines) <= 2

\* _format_text(data), as the list of lines it joins.
format_text(d) ==
    LET lines == << HeaderLine(d) >> \o FieldLines(d, 1)
    IN  IF NeedsNotice(lines)
        THEN lines \o << NoticeLine >> \o
             (IF Truthy(d.source) THEN << FieldLine("source", d.source) >>
              ELSE << >>)
        ELSE lines

InitFormat ==
    /\ InitEnv /\ InitRun
    /\ unit = "call"
    /\ arg \in FormatInputs
    /\ ret = NoRet

FormatText ==
    /\ unit = "call"
    /\ ret' = format_text(arg)
    /\ unit' = "return"
    /\ UNCHANGED << arg, runVars >>

NextFormat == FormatText

\* _format_text applied to one record.
SpecFormat == InitFormat /\ [][NextFormat]_vars

\* C11: the text has the notice line exactly when fewer than two of the
\* five field lines follow the header; then the notice is followed by the
\* source line once more if the record has a source, and by nothing
\* otherwise.
C11_Notice ==
    unit = "return" =>
      LET n == Cardinality({ i \in DOMAIN FieldNames : Truthy(arg[FieldNames[i]]) })
          at == { i \in DOMAIN ret : ret[i] = NoticeLine }
      IN  /\ (at # {}) <=> (n < 2)
          /\ at # {} =>
                /\ at = { n + 2 }
                /\ IF Truthy(arg.source)
                   THEN /\ Len(ret) = n + 3
                        /\ ret[n + 3] = FieldLine("source", arg.source)
                   ELSE Len(ret) = n + 2
          /\ at = {} => Len(ret) = n + 1

\* A record with only region and source populated has been rendered, with
\* the notice and the source line twice.
C11_Witness ==
    /\ unit = "return"
    /\ \A i \in 1..4 : ~ Truthy(arg[FieldNames[i]])
    /\ ret = << HeaderLine(arg), FieldLine("source", "x"), NoticeLine,
                FieldLine("source", "x") >>

(* ---------------------------- _normalize_temp -------------------------- *)

\* The two source files, each with its own copy of the helpers.
Files == { "main", "server" }

\* Characters of a temperature text: digits, the decimal point, the signs,
\* the degree glyph ("deg"), the degree word ("do"), the space, and a
\* letter of a label glued in front ("L").
Digits == { "2", "7" }
Signs == { "+", "-" }
TempChars == Digits \cup Signs \cup { ".", "deg", "do", Space, "L" }

\* All texts of at most n characters.
RECURSIVE Texts(_)
Texts(n) ==
    IF n = 0 THEN { << >> }
    ELSE Texts(n - 1) \cup
         { << c >> \o s : c \in TempChars, s \in { x \in Texts(n - 1) : Len(x) = n - 1 } }

TempInputs == Texts(MaxTempLen)

\* str.replace(c, ""): every occurrence of c removed.
Remove(s, c) == SelectSeq(s, LAMBDA x : x # c)

\* main.py: re.sub(r"^[^\d\-\+]*", "", txt).
RECURSIVE StripLabel(_)
StripLabel(s) ==
    IF s # << >> /\ Head(s) \notin (Digits \cup Signs)
    THEN StripLabel(Tail(s)) ELSE s

\* The text the replacements start from: main.py strips the label first,
\* server.py has no such step.
Clean(file, txt) == IF file = "main" THEN StripLabel(txt) ELSE txt

\* _normalize_temp(txt) of the given file.
normalize_temp(file, txt) ==
    LET t0 == Remove(Remove(Remove(Clean(file, txt), "do"), Space), "deg")
        t  == IF t0 # << >> /\ Head(t0) = "+" THEN Tail(t0) ELSE t0
    IN  IF t # << >> THEN t \o << "deg", "C" >> ELSE txt

InitTemp ==
    /\ InitEnv /\ InitRun
    /\ unit = "call"
    /\ arg \in [ file : Files, txt : TempInputs ]
    /\ ret = NoRet

NormalizeTemp ==
    /\ unit = "call"
    /\ ret' = normalize_temp(arg.file, arg.txt)
    /\ unit' = "return"
    /\ UNCHANGED << arg, runVars >>

NextTemp == NormalizeTemp

\* _normalize_temp of either file applied to one text.
SpecTemp == InitTemp /\ [][NextTemp]_vars

\* What the normalizer is to return for txt: the text from its first digit
\* or sign on, without degree word, spaces and degree glyph and without one
\* leading '+', followed by the degree glyph and C; txt itself when nothing
\* is left.
C12_Expected(txt) ==
    LET from == { i \in DOMAIN txt : txt[i] \in Digits \cup Signs }
        rest == IF from = {} THEN << >>
                ELSE SubSeq(txt, CHOOSE i \in from : \A j \in from : i <= j,
                            Len(txt))
        kept == SelectSeq(rest, LAMBDA c : c \notin { "do", Space, "deg" })
        t    == IF kept # << >> /\ kept[1] = "+"
                THEN SubSeq(kept, 2, Len(kept)) ELSE kept
    IN  IF t = << >> THEN txt ELSE t \o << "deg", "C" >>

\* C12: the normalizer of each source file returns, for every text, the
\* text stripped of its leading non-digit, non-sign characters, of the
\* degree word, spaces, degree glyph and one leading '+', suffixed with the
\* degree glyph and C, or the raw text when nothing is left.
C12_Normalizes ==
    unit = "return" => ret = C12_Expected(arg.txt)

\* The same for the normalizer of main.py alone.
C12_MainNormalizes ==
    (unit = "return" /\ arg.file = "main") => ret = C12_Expected(arg.txt)

(* --------------------------- the error string -------------------------- *)

\* str(e) of the exception caught by get_weather_by_region, as the sequence
\* of its characters; the i-th character is written i, so that no two
\* characters of a text are alike.
ErrorTexts == { [ i \in 1..n |-> i ] : n \in 0..MaxErrLen }

InitError ==
    /\ InitEnv /\ InitRun
    /\ unit = "call"
    /\ arg \in ErrorTexts
    /\ ret = NoRet

\* The except branch of get_weather_by_region, for one caught exception.
ErrorString ==
    /\ unit = "call"
    /\ ret' = ErrorMsg(arg)
    /\ unit' = "return"
    /\ UNCHANGED << arg, runVars >>

NextError == ErrorString

SpecError == InitError /\ [][NextError]_vars

\* C13: the error string shows at most the first 120 characters of the
\* error text, and not the whole text when that is longer.
C13_Truncated ==
    unit = "return" =>
      /\ ret.kind = "error"
      /\ Len(ret.reason) <= 120
      /\ Len(ret.reason) <= Len(arg)
      /\ \A i \in DOMAIN ret.reason : ret.reason[i] = arg[i]
      /\ Len(arg) > 120 => ret.reason # arg

\* An error text longer than 120 characters has been cut to its first 120.
C13_Witness ==
    /\ unit = "return"
    /\ Len(arg) > 120
    /\ Len(ret.reason) = 120
    /\ ret.reason[120] = arg[120]

(* ---------------------------- configuration ---------------------------- *)

\* An environment variable: unset, or set to (the text of) a number.
Unset == [ set |-> FALSE, value |-> 0 ]
EnvTtlValues == { Unset } \cup [ set : {TRUE}, value : { 1, 60, 600, 900 } ]
EnvIntervalValues == { Unset } \cup [ set : {TRUE}, value : { 1, 2, 5, 10 } ]

\* int(os.getenv(name, default)) / float(os.getenv(name, default))
Getenv(e, default) == IF e.set THEN e.value ELSE default

\* The value CACHE_TTL_SECONDS has once the module is imported: main.py
\* assigns it once, from the environment; server.py assigns it from the
\* environment (line 22) and then again, the literal 600 (line 43).
LoadTtl(file, e) ==
    LET fromEnv == Getenv(e, DefaultTtl)
    IN  IF file = "server" THEN ServerTtl ELSE fromEnv

\* The same for RATE_LIMIT_INTERVAL (server.py lines 23 and 46).
LoadInterval(file, e) ==
    LET fromEnv == Getenv(e, DefaultInterval)
    IN  IF file = "server" THEN ServerInterval ELSE fromEnv

\* Before the module is imported: the process has its environment.
InitConfig ==
    /\ InitRun
    /\ CACHE_TTL_SECONDS = 0
    /\ RATE_LIMIT_INTERVAL = 0
    /\ unit = "call"
    /\ arg \in [ file : Files, ttl : EnvTtlValues, interval : EnvIntervalValues ]
    /\ ret = NoRet

\* The module is imported: its top-level assignments run.
ImportModule ==
    /\ unit = "call"
    /\ CACHE_TTL_SECONDS' = LoadTtl(arg.file, arg.ttl)
    /\ RATE_LIMIT_INTERVAL' = LoadInterval(arg.file, arg.interval)
    /\ unit' = "loaded"
    /\ UNCHANGED << arg, ret, callVars >>

\* supported_fields()
SupportedFields ==
    /\ unit = "loaded"
    /\ ret' = [ cache_ttl_seconds |-> CACHE_TTL_SECONDS,
                rate_limit_seconds |-> RATE_LIMIT_INTERVAL ]
    /\ unit' = "return"
    /\ UNCHANGED << arg, runVars >>

NextConfig == ImportModule \/ SupportedFields

\* Start-up of either file in some environment, then supported_fields.
SpecConfig == InitConfig /\ [][NextConfig]_vars

\* C14: once the module is imported, the TTL and the interval in effect
\* are those the environment sets, and 600 and 1.0 where it sets none;
\* supported_fields reports the values in effect.
C14_FromEnvironment ==
    /\ unit \in { "loaded", "return" } =>
         /\ CACHE_TTL_SECONDS = (IF arg.ttl.set THEN arg.ttl.value ELSE 600)
         /\ RATE_LIMIT_INTERVAL =
              (IF arg.interval.set THEN arg.interval.value ELSE 1)
    /\ unit = "return" =>
         /\ ret.cache_ttl_seconds = CACHE_TTL_SECONDS
         /\ ret.rate_limit_seconds = RATE_LIMIT_INTERVAL

\* The same for main.py alone.
C14_MainFromEnvironment ==
    arg.file = "main" => C14_FromEnvironment

(* ------------------------- attempts and the limiter -------------------- *)

\* C15: within a fetch every requests.get is issued right after the
\* thread's own completed _rate_limit call: a thread comes to issue a GET
\* only by returning from _rate_limit, it issues the GET from there, and at
\* every other point of its call it has completed as many _rate_limit calls
\* as it has issued GETs, failed ones included.
C15_AcquirePerGet ==
    [][\A t \in Threads :
         /\ IF pc'[t] = "get"
            THEN acquires'[t] = gets'[t] + 1
            ELSE acquires'[t] = gets'[t]
         /\ (pc'[t] = "get" /\ pc[t] # "get") =>
               (RlReturns(t) /\ acquires'[t] = acquires[t] + 1)
         /\ gets'[t] > gets[t] =>
               (GetStarts(t) /\ gets'[t] = gets[t] + 1)]_vars

\* A fetch has made two failing attempts, each after its own _rate_limit
\* call, and is sleeping before the third.
C15_Witness ==
    \E t \in Threads :
      /\ pc[t] = "backoff"
      /\ attempt[t] = 2
      /\ gets[t] = 2
      /\ acquires[t] = 2

\* The sleep after the k-th failed attempt is BACKOFF_BASE * 2^(k-1):
\* 0.8 s, 1.6 s, 3.2 s, i.e. 1, 2, 4 units of model time.
C16_SleepDurations ==
    [][\A t \in Threads :
         (pc[t] = "handle" /\ pc'[t] = "backoff") =>
           /\ attempt[t] \in 1..3
           /\ wake'[t] - now =
                (CASE attempt[t] = 1 -> 1 [] attempt[t] = 2 -> 2
                   [] attempt[t] = 3 -> 4)]_vars

\* C16: after the k-th failed attempt the fetch sleeps
\* BACKOFF_BASE * 2^(k-1), and when a backoff sleep ends the same fetch
\* goes on to its next attempt.
C16_SleepThenAttempt ==
    [][\A t \in Threads :
         /\ (pc[t] = "handle" /\ pc'[t] = "backoff") =>
               wake'[t] - now =
                 (CASE attempt[t] = 1 -> 1 [] attempt[t] = 2 -> 2
                    [] attempt[t] = 3 -> 4 [] OTHER -> 0)
         /\ (pc[t] = "backoff" /\ pc'[t] # "backoff") =>
               /\ now >= wake[t]
               /\ pc'[t] = "rl_lock"
               /\ attempt'[t] = attempt[t] + 1]_vars

(* ------------------------------ status codes --------------------------- *)

\* C17: an attempt ends the fetch with the page text only if requests.get
\* returned a 2xx status; with any other status, or an exception of the
\* transport, the attempt fails and the fetch backs off.
C17_SuccessOnly2xx ==
    [][\A t \in Threads :
         (pc[t] = "handle" /\ pc'[t] # "handle") =>
           IF ~ resp[t].exc /\ 200 <= resp[t].status /\ resp[t].status <= 299
           THEN pc'[t] = "parse"
           ELSE pc'[t] = "backoff" /\ err'[t] # None]_vars

\* The same for the statuses other than 3xx (and 1xx).
C17_SuccessNot4xx5xx ==
    [][\A t \in Threads :
         (pc[t] = "handle" /\ pc'[t] # "handle") =>
           IF ~ resp[t].exc /\ resp[t].status < 400
           THEN pc'[t] = "parse"
           ELSE pc'[t] = "backoff" /\ err'[t] # None]_vars

(* ---------------------------- _guess_humidity -------------------------- *)

\* SELECTORS["humidity_guess_blocks"], in order.
HumidityBlocks == << ".summary_list", ".weather_info", ".temperature_info" >>

\* What the page holds for one selector: no such element, or an element
\* whose text the humidity pattern does not match (digits = ""), or one in
\* which it matches with the given digits.
NoBlock == [ present |-> FALSE, digits |-> "" ]
BlockStates == { NoBlock } \cup [ present : {TRUE}, digits : { "", "40", "55" } ]

\* The pages, as far as _guess_humidity looks at them.
Soups == [ DOMAIN HumidityBlocks -> BlockStates ]

\* Return values: None, or m.group(1) + "%".
NoHumidity == [ found |-> FALSE, digits |-> "", suffix |-> "" ]
Humidity(d) == [ found |-> TRUE, digits |-> d, suffix |-> "%" ]

\* Variant: the scan ends at a block without a match.
UnmatchedEnds(later) == NoHumidity

\* `if m:' fails: the for loop goes on with the later selectors.
Unmatched(later) == later

\* The for loop of _guess_humidity from the i-th selector on.
RECURSIVE Scan(_, _)
Scan(soup, i) ==
    IF i > Len(HumidityBlocks) THEN NoHumidity
    ELSE LET later == Scan(soup, i + 1)
         IN  IF ~ soup[i].present THEN later
             ELSE IF soup[i].digits # "" THEN Humidity(soup[i].digits)
             ELSE Unmatched(later)

guess_humidity(soup) == Scan(soup, 1)

InitHumidity ==
    /\ InitEnv /\ InitRun
    /\ unit = "call"
    /\ arg \in Soups
    /\ ret = NoRet

GuessHumidity ==
    /\ unit = "call"
    /\ ret' = guess_humidity(arg)
    /\ unit' = "return"
    /\ UNCHANGED << arg, runVars >>

NextHumidity == GuessHumidity

\* _guess_humidity applied to one page.
SpecHumidity == InitHumidity /\ [][NextHumidity]_vars

\* C18 as stated: the scan stops at the first block that exists: the
\* result is that block's match, and absent if the pattern does not match
\* in it, whatever the later blocks hold.
C18_StopsAtFirstBlock ==
    unit = "return" =>
      LET present == { i \in DOMAIN arg : arg[i].present }
      IN  IF present = {} THEN ~ ret.found
          ELSE LET first == CHOOSE i \in present : \A j \in present : i <= j
               IN  IF arg[first].digits = "" THEN ~ ret.found
                   ELSE ret = Humidity(arg[first].digits)

\* C18 amended: the scan visits the selectors in order and returns the
\* match of the first block that exists and in which the pattern matches;
\* blocks that exist without a match are passed over, and the result is
\* absent only if no existing block has a match.
C18_FirstMatchingBlock ==
    unit = "return" =>
      LET matching == { i \in DOMAIN arg : arg[i].present /\ arg[i].digits # "" }
      IN  IF matching = {} THEN ~ ret.found
          ELSE LET first == CHOOSE i \in matching : \A j \in matching : i <= j
               IN  /\ ret.found
                   /\ ret.digits = arg[first].digits
                   /\ ret.suffix = "%"

\* The first block exists without a match, a later block has one, and the
\* scan returned the later block's match.
C18_Witness ==
    /\ unit = "return"
    /\ arg[1].present /\ arg[1].digits = ""
    /\ arg[2].present /\ arg[2].digits = "40"
    /\ arg[3].present /\ arg[3].digits = "55"
    /\ ret = Humidity("40")

(* --------------------------- concurrent misses ------------------------- *)

\* Thread t is on the miss path of its call, between the membership test
\* and the cache write.
Fetching(t) ==
    pc[t] \in { "rl_lock", "rl_sleep", "rl_stamp", "get", "resp", "handle",
                "backoff", "parse", "put" }

\* C19: a call that finds no live entry for its key takes the miss path
\* even while another call is fetching the same key; a call that gets as far
\* as the cache write has completed _rate_limit calls and GETs of its own,
\* and its write leaves its own record as the entry for the key, in place of
\* whatever another call wrote there before.
C19_NoSingleFlight ==
    [][\A t \in Threads :
         /\ (Looks(t) /\ ~ Contains(cache, region_key[t], now)) =>
               /\ pc'[t] = "rl_lock"
               /\ attempt'[t] = 1
               /\ acquires[t] = 0 /\ gets[t] = 0
         /\ Puts(t) =>
               /\ ~ hit[t]
               /\ gets[t] >= 1 /\ acquires[t] = gets[t]
               /\ EntryOf(cache', region_key[t]).value = data[t]
               /\ EntryOf(cache', region_key[t]).expires
                    = now + CACHE_TTL_SECONDS
               /\ Cardinality({ i \in DOMAIN cache' :
                                  cache'[i].key = region_key[t] }) = 1]_vars

\* Two calls for the same key both missed before either wrote; one has
\* fetched and written its record, which is live, the other has fetched a
\* different record of its own and is about to overwrite it.
C19_Witness ==
    \E t, u \in Threads :
      /\ t # u
      /\ region_key[t] = region_key[u]
      /\ pc[t] = "render" /\ ~ hit[t] /\ puts[t] = 1 /\ gets[t] >= 1
      /\ pc[u] = "put" /\ ~ hit[u] /\ gets[u] >= 1 /\ acquires[u] >= 1
      /\ Contains(cache, region_key[t], now)
      /\ EntryOf(cache, region_key[t]).value = data[t]
      /\ data[u] # data[t]

(* ------------------------------ termination ---------------------------- *)

TickLive == TickTo(MaxTimeLive)

\* Time goes on past MaxTimeLive: the clock reading stays at MaxTimeLive
\* and the sleeps still pending come to their end.
TimePasses ==
    /\ now = MaxTimeLive
    /\ \E t \in Threads : wake[t] > now
    /\ wake' = [t \in Threads |-> IF wake[t] > now THEN now ELSE wake[t]]
    /\ UNCHANGED << now, CACHE_TTL_SECONDS, RATE_LIMIT_INTERVAL, cache,
                    last_request_ts, rl_lock, pc, region_key, attempt, err,
                    resp, html, data, result, started, acquires, gets, puts,
                    hit, slot, lastGet, stored, unit, arg, ret >>

NextLive == TickLive \/ TimePasses \/ \E t \in Threads : Step(t)

\* Concurrent calls under a fair scheduler: time passes, every thread that
\* can take a step eventually takes one, and every requests.get eventually
\* returns or raises (a step of its thread).
SpecLive ==
    /\ Init
    /\ [][NextLive]_vars
    /\ WF_vars(TickLive)
    /\ WF_vars(TimePasses)
    /\ \A t \in Threads : WF_vars(Step(t))

\* C20: under a fair scheduler every call that has started comes to its
\* end, and the lock of the rate limiter is held only by a thread inside
\* _rate_limit, which releases it on return.
C20_Returns ==
    /\ [](rl_lock # NoThread =>
            /\ rl_lock \in Threads
            /\ pc[rl_lock] \in { "rl_sleep", "rl_stamp" })
    /\ \A t \in Threads : (pc[t] \notin { "idle", "done" }) ~> (pc[t] = "done")

\* A caller waits for the lock while another holds it, asleep inside
\* _rate_limit.
C20_Witness ==
    \E t, u \in Threads :
      /\ t # u
      /\ pc[t] = "rl_lock"
      /\ rl_lock = u
      /\ pc[u] = "rl_sleep"
      /\ wake[u] > now


====
